---- MODULE Spec2Model ----
(***************************************************************************)
(* Janus: the dual-headed planner.  planWithJanus issues codexPlan and     *)
(* claudePlan together (Promise.all) and merges their PlanResults;         *)
(* claudePlan walks a fixed chain of transports: Anthropic API, HTTP       *)
(* service, CLI command, OpenAI fallback.                                  *)
(*                                                                         *)
(* A text is a sequence of tokens.  A token is a newline "\n", a space     *)
(* " ", or a chunk of characters that has no newline in it and neither     *)
(* starts nor ends with white space.  The empty text is << >>.  A label    *)
(* with its colon ("SYSTEM PROMPT:", "PLAN:") at the start of a line is a  *)
(* token of its own.  Str gives the string a text stands for; two texts    *)
(* are the same string when their Str are equal.                           *)
(***************************************************************************)
EXTENDS Integers, Sequences, FiniteSets, TLC

VARIABLES
    env,          \* process.env: the four configuration values
    sdk,          \* what `import('@anthropic-ai/sdk')` does in this build
    task,         \* the argument of planWithJanus
    janusPc,      \* planWithJanus: "idle", "awaiting", "returned", "failed"
    output,       \* the JanusOutput planWithJanus resolved with, or Null
    codexPc,      \* codexPlan: "idle", "pending", "returned", "threw"
    codex,        \* the PlanResult codexPlan resolved with, or Null
    claudePc,     \* claudePlan: "idle", "calling", "awaiting", "returned", "threw"
    claudeStage,  \* the stage claudePlan is at
    claude,       \* the PlanResult claudePlan resolved with, or Null
    attempted,    \* history: the stages whose helper claudePlan has called, in order
    outcome,      \* history: per stage, how its helper ended and what it resolved with
    invoked,      \* history: the stages whose transport did network/subprocess I/O
    log,          \* console.error: the stages that logged a failure, in order
    content,      \* the argument of a call of an extractor on its own
    extractPc,    \* that call: "idle", "called", "returned", "again" for
                  \* extractSystemPrompt; "calledPlan", "returnedPlan" for extractPlan
    extracted,    \* what that call returned
    extractedAgain, \* what extractSystemPrompt returned for what it had returned
    response,     \* history: the complete response the HTTP service gave, if any
    disk,         \* the file codex-flow.db: whether it exists, and what it holds
    modules,      \* per process, how far the memory module has loaded, and firstTime
    calls         \* history: the calls of logEvent made, with their payloads

vars == <<env, sdk, task, janusPc, output, codexPc, codex, claudePc, claudeStage,
          claude, attempted, outcome, invoked, log, content, extractPc, extracted,
          extractedAgain, response, disk, modules, calls>>

\* The call of an extractor on its own
Extractor == <<content, extractPc, extracted, extractedAgain>>

\* The memory layer of codex-flow
Memory == <<disk, modules, calls>>

---------------------------------------------------------------------------
(* Values *)

\* An absent value (JavaScript undefined or null: an unset process.env entry,
\* a missing field) is a text of its own, so that it differs from the empty
\* string '' and still compares with every text.
Undefined == <<"\\undefined">>

\* A truthy JSON value that is no string (a number, an object, an array, true)
NonString == <<"\\non-string">>

\* typeof v === 'string'
IsString(v) == v # Undefined /\ v # NonString

Whitespace == {" ", "\n"}

\* `!value` for a string-or-undefined value
Falsy(v) == v = Undefined \/ v = << >>

\* a || b
OrElse(a, b) == IF Falsy(a) THEN b ELSE a

\* a ?? b
Coalesce(a, b) == IF a = Undefined THEN b ELSE a

RECURSIVE TrimStart(_)
TrimStart(s) ==
    IF s # << >> /\ Head(s) \in Whitespace THEN TrimStart(Tail(s)) ELSE s

RECURSIVE TrimEnd(_)
TrimEnd(s) ==
    IF s # << >> /\ s[Len(s)] \in Whitespace
    THEN TrimEnd(SubSeq(s, 1, Len(s) - 1))
    ELSE s

\* String.prototype.trim
Trim(s) == TrimEnd(TrimStart(s))

RECURSIVE Join(_, _)
\* Array.prototype.join on an array of texts
Join(parts, sep) ==
    IF parts = << >> THEN << >>
    ELSE IF Len(parts) = 1 THEN parts[1]
    ELSE parts[1] \o sep \o Join(Tail(parts), sep)

Stages == <<"anthropic", "http", "cli", "fallback">>
StageSet == {Stages[i] : i \in 1..Len(Stages)}
TransportStages == {"anthropic", "http", "cli"}

StageIndex(s) == CHOOSE i \in 1..Len(Stages) : Stages[i] = s

\* interface PlanResult
PlanResult(p, sp, pl, ra) ==
    [provider |-> p, systemPrompt |-> sp, plan |-> pl, rationale |-> ra]

\* The null a helper returns in place of a PlanResult
Null == PlanResult("null", << >>, << >>, << >>)

\* How a helper's promise settles: fulfilled with a value, or rejected
Fulfilled(v) == [kind |-> "value", value |-> v]
Rejected == [kind |-> "reject", value |-> Null]

\* No complete response of the HTTP service (yet)
NoResponse == [received |-> FALSE, status |-> 0, data |-> << >>]

\* codex-flow.db does not exist
NoFile == [exists |-> FALSE, table |-> FALSE, events |-> << >>, sequence |-> 0]

\* The processes that import the memory module
Processes == {"codex-flow", "orchestrator"}

\* A process that has not imported the memory module
Unloaded == [pc |-> "unloaded", firstTime |-> FALSE]

---------------------------------------------------------------------------
(* The environment: configuration and what the transports can answer *)

EnvValues == {Undefined, << >>, <<"set">>}

\* CLAUDE_FLOW_URL may also hold a text `new URL` rejects
NotAUrl == <<"not", " ", "a", " ", "url">>
AUrl == <<"http://localhost:3000/plan">>
UrlValues == {Undefined, << >>, NotAUrl, AUrl}

\* new URL(url) throws a TypeError unless url parses as an absolute URL
UrlParses(url) == url = AUrl

\* import('@anthropic-ai/sdk'): the module loads, is not installed (the error
\* message holds 'Cannot find module'), or fails to load with another error
SdkStates == {"installed", "missing", "broken"}

Tasks == {<< >>, <<"Add", " ", "logging">>}


\* The content blocks a message of the Anthropic API may carry
TextBlock(t) == [type |-> "text", text |-> t]
ToolUseBlock == [type |-> "tool_use", text |-> Undefined]

\* message.content: absent, or an array of content blocks
Messages ==
    { [hasContent |-> FALSE, content |-> << >>] } \cup
    { [hasContent |-> TRUE, content |-> c] :
        c \in { << >>,
                <<TextBlock(<< >>)>>,
                <<ToolUseBlock>>,
                <<TextBlock(Undefined)>>,
                <<TextBlock(<<"Consider", " ", "edge", " ", "cases.">>)>>,
                <<TextBlock(<<"A">>), ToolUseBlock, TextBlock(<<"B">>)>> } }

\* What the HTTP service may answer: the raw body `data`, and what JSON.parse
\* makes of it: a SyntaxError ("invalid"), null, or an object with some of the
\* fields systemPrompt, content, plan, rationale, each a string or another
\* JSON value.  A body JSON.parse accepts is never empty.
JsonObject(sp, co, pl, ra) ==
    [systemPrompt |-> sp, content |-> co, plan |-> pl, rationale |-> ra]
NoFields == JsonObject(Undefined, Undefined, Undefined, Undefined)
Bodies ==
    { [data |-> << >>, json |-> "invalid", fields |-> NoFields],
      [data |-> <<"Service", " ", "unavailable">>, json |-> "invalid", fields |-> NoFields],
      [data |-> <<"Consider", " ", "edge", " ", "cases.", "\n",
                  "Note", " ", "potential", " ", "race.">>,
       json |-> "invalid", fields |-> NoFields],
      [data |-> <<"SYSTEM PROMPT:", "\n", "Consider", " ", "edge", " ", "cases.", "\n",
                  "Keep", " ", "it", " ", "simple", "\n", "\n",
                  "RATIONALE:", "\n", "Fewer", " ", "surprises">>,
       json |-> "invalid", fields |-> NoFields],
      [data |-> <<"SYSTEM PROMPT:", "\n", "In", " ", "short", "\n",
                  "System:", "\n", "Avoid", " ", "globals.", "\n",
                  "Run", " ", "fast", "\n", "ENSURE", " ", "tests.">>,
       json |-> "invalid", fields |-> NoFields],
      [data |-> <<"null">>, json |-> "null", fields |-> NoFields],
      [data |-> <<"{}">>, json |-> "object", fields |-> NoFields],
      [data |-> <<"{\"systemPrompt\":\"S\",\"plan\":\"P\",\"rationale\":\"R\"}">>,
       json |-> "object",
       fields |-> JsonObject(<<"S">>, Undefined, <<"P">>, <<"R">>)],
      [data |-> <<"{\"systemPrompt\":\"\",\"content\":\"C\"}">>,
       json |-> "object",
       fields |-> JsonObject(<< >>, <<"C">>, Undefined, Undefined)],
      [data |-> <<"{\"systemPrompt\":42}">>,
       json |-> "object",
       fields |-> JsonObject(NonString, Undefined, Undefined, Undefined)] }

\* res.statusCode of a response: success, or a server error
StatusCodes == {200, 500}

\* What the CLI command may write before it exits with status 0
CliOutputs ==
    { [stdout |-> o, stderr |-> e] :
        o \in { << >>, <<"\n">>, <<"Avoid", " ", "globals.", "\n">> },
        e \in { << >>, <<" ", "\n">>, <<"warning">> } }

\* res.choices of an OpenAI chat completion: each choice holds a message whose
\* content is a string or null
Completions ==
    { << >>,
      <<[content |-> Undefined]>>,
      <<[content |-> << >>]>>,
      <<[content |-> <<"SYSTEM PROMPT:", "\n", "Ensure", " ", "tests.">>]>> }

---------------------------------------------------------------------------
(* claudePlan and its four helpers *)

\* NextStage with the CLI command tried before the HTTP service
NextStageCliFirst(s) ==
    CASE s = "anthropic" -> "cli"
      [] s = "cli" -> "http"
      [] OTHER -> "fallback"

\* The stage after s in claudePlan
NextStage(s) == Stages[StageIndex(s) + 1]

\* claudePlan without `if (anthropicResult) return anthropicResult`
claudePlanDropsApiResult(s, settled) ==
    IF settled.kind = "reject"
    THEN IF s \in {"http", "cli"}
         THEN /\ claudePc' = "calling"
              /\ claudeStage' = Stages[StageIndex(s) + 1]
              /\ claude' = claude
         ELSE /\ claudePc' = "threw"
              /\ UNCHANGED <<claudeStage, claude>>
    ELSE IF s = "fallback" \/ (settled.value # Null /\ s # "anthropic")
         THEN /\ claudePc' = "returned"
              /\ claude' = settled.value
              /\ UNCHANGED claudeStage
         ELSE /\ claudePc' = "calling"
              /\ claudeStage' = Stages[StageIndex(s) + 1]
              /\ claude' = claude

\* claudePlan without the try/catch around the HTTP and the CLI helper
claudePlanNoCatch(s, settled) ==
    IF settled.kind = "reject"
    THEN /\ claudePc' = "threw"
         /\ UNCHANGED <<claudeStage, claude>>
    ELSE IF s = "fallback" \/ settled.value # Null
         THEN /\ claudePc' = "returned"
              /\ claude' = settled.value
              /\ UNCHANGED claudeStage
         ELSE /\ claudePc' = "calling"
              /\ claudeStage' = Stages[StageIndex(s) + 1]
              /\ claude' = claude

\* claudePlan: what it does with the settled promise of the helper of stage s.
\* A truthy result is returned; null moves on; a rejection is caught around
\* the HTTP and the CLI helper only, and the fallback's promise is returned
\* as it is.
claudePlan(s, settled) ==
    IF settled.kind = "reject"
    THEN IF s \in {"http", "cli"}
         THEN /\ claudePc' = "calling"
              /\ claudeStage' = NextStage(s)
              /\ claude' = claude
         ELSE /\ claudePc' = "threw"
              /\ UNCHANGED <<claudeStage, claude>>
    ELSE IF s = "fallback" \/ settled.value # Null
         THEN /\ claudePc' = "returned"
              /\ claude' = settled.value
              /\ UNCHANGED claudeStage
         ELSE /\ claudePc' = "calling"
              /\ claudeStage' = NextStage(s)
              /\ claude' = claude

\* The helper of stage s ends: its promise settles, and claudePlan goes on
Ends(s, settled, how, logged) ==
    /\ claudePlan(s, settled)
    /\ outcome' = [outcome EXCEPT ![s] = [how |-> how, result |-> settled.value]]
    /\ log' = IF logged THEN Append(log, s) ELSE log

\* The helper of stage s starts its transport and waits for the answer
Waits(s) ==
    /\ claudePc' = "awaiting"
    /\ outcome' = [outcome EXCEPT ![s] = [how |-> "pending", result |-> Null]]
    /\ invoked' = Append(invoked, s)
    /\ UNCHANGED <<claudeStage, claude, log>>

Called(s) == claudePc = "calling" /\ claudeStage = s
Awaited(s) == claudePc = "awaiting" /\ claudeStage = s

\* What claudePlan never touches
Rest == <<env, sdk, task, janusPc, output, codexPc, codex, Extractor, Memory>>
Others == <<Rest, response>>

RECURSIVE TextsOf(_)
\* .filter(block.type === 'text' && typeof block.text === 'string').map(block.text)
TextsOf(blocks) ==
    IF blocks = << >> THEN << >>
    ELSE (IF Head(blocks).type = "text" /\ Head(blocks).text # Undefined
          THEN <<Head(blocks).text>> ELSE << >>) \o TextsOf(Tail(blocks))

\* planWithAnthropic: the text of the message
AnthropicContent(message) ==
    IF message.hasContent THEN Join(TextsOf(message.content), <<"\n">>) ELSE << >>

AnthropicRationale == <<"Claude-style critique via Anthropic API.">>

AnthropicResult(message) ==
    PlanResult("claude", AnthropicContent(message), AnthropicContent(message),
               AnthropicRationale)

\* planWithAnthropic, up to the request: no key, no call; a module that is not
\* installed gives null without a word, any other load error is logged
planWithAnthropic ==
    /\ Called("anthropic")
    /\ attempted' = Append(attempted, "anthropic")
    /\ IF Falsy(env.ANTHROPIC_API_KEY)
       THEN Ends("anthropic", Fulfilled(Null), "skipped", FALSE) /\ UNCHANGED invoked
       ELSE IF sdk = "missing"
       THEN Ends("anthropic", Fulfilled(Null), "failed", FALSE) /\ UNCHANGED invoked
       ELSE IF sdk = "broken"
       THEN Ends("anthropic", Fulfilled(Null), "failed", TRUE) /\ UNCHANGED invoked
       ELSE Waits("anthropic")
    /\ UNCHANGED Others

\* planWithAnthropicSettled with a catch that throws the API error again
planWithAnthropicSettledRethrows ==
    /\ Awaited("anthropic")
    /\ \/ Ends("anthropic", Rejected, "failed", TRUE)
       \/ \E message \in Messages :
            Ends("anthropic", Fulfilled(AnthropicResult(message)), "result", FALSE)
    /\ UNCHANGED <<attempted, invoked>>
    /\ UNCHANGED Others

\* planWithAnthropic, from the answer of messages.create on
planWithAnthropicSettled ==
    /\ Awaited("anthropic")
    /\ \/ Ends("anthropic", Fulfilled(Null), "failed", TRUE)
       \/ \E message \in Messages :
            Ends("anthropic", Fulfilled(AnthropicResult(message)), "result", FALSE)
    /\ UNCHANGED <<attempted, invoked>>
    /\ UNCHANGED Others


HttpRationale == <<"Claude-style critique via external HTTP service.">>

\* planWithHttpService, res.on('end'): the PlanResult made of the body.  A
\* body that is not JSON, and one that parses to null (reading a field of
\* null throws inside the try), are taken as plain text.
HttpResult(body) ==
    IF body.json = "object"
    THEN PlanResult("claude",
                    OrElse(OrElse(body.fields.systemPrompt, body.fields.content), body.data),
                    OrElse(OrElse(body.fields.plan, body.fields.content), body.data),
                    OrElse(body.fields.rationale, HttpRationale))
    ELSE PlanResult("claude", body.data, body.data, HttpRationale)

\* planWithHttpService, up to the request: no URL, no call; a URL that does
\* not parse throws inside the try, which logs it
planWithHttpService ==
    /\ Called("http")
    /\ attempted' = Append(attempted, "http")
    /\ IF Falsy(env.CLAUDE_FLOW_URL)
       THEN Ends("http", Fulfilled(Null), "skipped", FALSE) /\ UNCHANGED invoked
       ELSE IF ~UrlParses(env.CLAUDE_FLOW_URL)
       THEN Ends("http", Fulfilled(Null), "failed", TRUE) /\ UNCHANGED invoked
       ELSE Waits("http")
    /\ UNCHANGED Others

\* planWithHttpServiceSettled taking a response whose status is an error
\* status for a failed request
planWithHttpServiceSettledChecksStatus ==
    /\ Awaited("http")
    /\ \/ Ends("http", Rejected, "failed", FALSE) /\ UNCHANGED response
       \/ \E status \in StatusCodes, body \in Bodies :
            /\ IF status >= 400
               THEN Ends("http", Rejected, "failed", FALSE)
               ELSE Ends("http", Fulfilled(HttpResult(body)), "result", FALSE)
            /\ response' = [received |-> TRUE, status |-> status, data |-> body.data]
    /\ UNCHANGED <<attempted, invoked>>
    /\ UNCHANGED Rest

\* planWithHttpService, from the request's 'error' or the response's 'end' on:
\* the callback reads the body and never res.statusCode.
\* The promise is returned without await, so its rejection passes by the
\* helper's catch and its console.error, and reaches claudePlan.
planWithHttpServiceSettled ==
    /\ Awaited("http")
    /\ \/ Ends("http", Rejected, "failed", FALSE) /\ UNCHANGED response
       \/ \E status \in StatusCodes, body \in Bodies :
            /\ Ends("http", Fulfilled(HttpResult(body)), "result", FALSE)
            /\ response' = [received |-> TRUE, status |-> status, data |-> body.data]
    /\ UNCHANGED <<attempted, invoked>>
    /\ UNCHANGED Rest

CliRationale == <<"Claude-style critique via external CLI command.">>

\* planWithCliCommand: stdout.trim() || stderr.trim()
CliContent(out) == OrElse(Trim(out.stdout), Trim(out.stderr))

\* planWithCliCommand without `if (!cmd) return null`
planWithCliCommandUnguarded ==
    /\ Called("cli")
    /\ attempted' = Append(attempted, "cli")
    /\ Waits("cli")
    /\ UNCHANGED Others

\* planWithCliCommand, up to the subprocess: no command, no call
planWithCliCommand ==
    /\ Called("cli")
    /\ attempted' = Append(attempted, "cli")
    /\ IF Falsy(env.CLAUDE_FLOW_CMD)
       THEN Ends("cli", Fulfilled(Null), "skipped", FALSE) /\ UNCHANGED invoked
       ELSE Waits("cli")
    /\ UNCHANGED Others

\* planWithCliCommand, from the end of the subprocess on: exec rejects when
\* the command cannot be run or exits with a status other than 0
planWithCliCommandSettled ==
    /\ Awaited("cli")
    /\ \/ Ends("cli", Fulfilled(Null), "failed", TRUE)
       \/ \E out \in CliOutputs :
            IF CliContent(out) = << >>
            THEN Ends("cli", Fulfilled(Null), "empty", FALSE)
            ELSE Ends("cli",
                      Fulfilled(PlanResult("claude", CliContent(out), CliContent(out),
                                           CliRationale)),
                      "result", FALSE)
    /\ UNCHANGED <<attempted, invoked>>
    /\ UNCHANGED Others

\* planWithOpenAIFallback: the PlanResult it returns with no OPENAI_API_KEY
Stub ==
    PlanResult("claude",
        <<"Claude-Flow", " ", "stub:", " ", "no", " ", "API", " ", "keys", " ",
          "configured.", " ", "Set", " ",
          "ANTHROPIC_API_KEY, CLAUDE_FLOW_URL, CLAUDE_FLOW_CMD, or OPENAI_API_KEY.">>,
        <<"Treat this as a placeholder until real Claude integration is wired.">>,
        <<"Stub response generated locally.">>)

FallbackRationale ==
    <<"Claude-style critique synthesized via OpenAI (fallback mode).">>

\* planWithOpenAIFallback: res.choices[0]?.message?.content ?? ''
FallbackContent(choices) ==
    Coalesce(IF choices = << >> THEN Undefined ELSE choices[1].content, << >>)

\* planWithOpenAIFallback without `if (!apiKey) return {stub}`
planWithOpenAIFallbackUnguarded ==
    /\ Called("fallback")
    /\ attempted' = Append(attempted, "fallback")
    /\ Waits("fallback")
    /\ UNCHANGED Others

\* planWithOpenAIFallback, up to the request: with no key it returns the stub
planWithOpenAIFallback ==
    /\ Called("fallback")
    /\ attempted' = Append(attempted, "fallback")
    /\ IF Falsy(env.OPENAI_API_KEY)
       THEN Ends("fallback", Fulfilled(Stub), "result", FALSE) /\ UNCHANGED invoked
       ELSE Waits("fallback")
    /\ UNCHANGED Others

\* planWithOpenAIFallback, from the answer of chat.completions.create on:
\* nothing catches what the call throws
planWithOpenAIFallbackSettled ==
    /\ Awaited("fallback")
    /\ \/ Ends("fallback", Rejected, "failed", FALSE)
       \/ \E choices \in Completions :
            Ends("fallback",
                 Fulfilled(PlanResult("claude", FallbackContent(choices),
                                      FallbackContent(choices), FallbackRationale)),
                 "result", FALSE)
    /\ UNCHANGED <<attempted, invoked>>
    /\ UNCHANGED Others

---------------------------------------------------------------------------
(* codexPlan, the primary adapter *)

ClaudeState == <<claudePc, claudeStage, claude, attempted, outcome, invoked, log, response>>

\* What the primary adapter may resolve with
CodexResults ==
    { PlanResult("codex", sp, sp, <<"Codex-style plan.">>) :
        sp \in { << >>,
                 <<"SYSTEM PROMPT:", "\n", "Build", " ", "it", " ", "carefully", "\n", "\n",
                   "PLAN:", "\n", "Step", " ", "1">>,
                 <<"SYSTEM PROMPT:", "\n", "Consider", " ", "edge", " ", "cases.", "\n",
                   "Note", " ", "potential", " ", "race.">> } }
    \cup { PlanResult("codex", << >>, << >>, << >>) }

\* codexPlan settles: it resolves with a PlanResult, or it throws
codexPlanSettled ==
    /\ codexPc = "pending"
    /\ \/ codexPc' = "threw" /\ codex' = codex
       \/ \E r \in CodexResults : codexPc' = "returned" /\ codex' = r
    /\ UNCHANGED <<env, sdk, task, janusPc, output>>
    /\ UNCHANGED ClaudeState
    /\ UNCHANGED Extractor
    /\ UNCHANGED Memory

---------------------------------------------------------------------------
(* Strings: what a text is as a JavaScript string *)

RECURSIVE Str(_)
\* The string a text stands for: its tokens one after the other
Str(text) == IF text = << >> THEN "" ELSE Head(text) \o Str(Tail(text))

\* string.length
Length(text) == Len(Str(text))

UpperCase == "ABCDEFGHIJKLMNOPQRSTUVWXYZ"
LowerCase == "abcdefghijklmnopqrstuvwxyz"

LowerChar(c) ==
    IF \E i \in 1..Len(UpperCase) : SubSeq(UpperCase, i, i) = c
    THEN LET i == CHOOSE j \in 1..Len(UpperCase) : SubSeq(UpperCase, j, j) = c
         IN SubSeq(LowerCase, i, i)
    ELSE c

RECURSIVE ToLowerCase(_)
\* String.prototype.toLowerCase, one half of the string after the other
ToLowerCase(str) ==
    IF Len(str) = 0 THEN ""
    ELSE IF Len(str) = 1 THEN LowerChar(str)
    ELSE ToLowerCase(SubSeq(str, 1, Len(str) \div 2))
         \o ToLowerCase(SubSeq(str, Len(str) \div 2 + 1, Len(str)))

\* String.prototype.includes
Includes(str, word) ==
    \E i \in 1..(Len(str) - Len(word) + 1) : SubSeq(str, i, i + Len(word) - 1) = word

RECURSIVE Words(_)
\* The tokens of a string that holds no newline: its words and its spaces
Words(str) ==
    LET spaces == { i \in 1..Len(str) : SubSeq(str, i, i) = " " }
        first == CHOOSE i \in spaces : \A j \in spaces : i <= j
    IN IF str = "" THEN << >>
       ELSE IF spaces = {} THEN <<str>>
       ELSE (IF first > 1 THEN <<SubSeq(str, 1, first - 1)>> ELSE << >>)
            \o <<" ">> \o Words(SubSeq(str, first + 1, Len(str)))

RECURSIVE Substring(_, _)
\* text.substring(0, n); a token cut in two is read again as words and spaces
Substring(text, n) ==
    IF text = << >> \/ n <= 0 THEN << >>
    ELSE IF Len(Head(text)) <= n
         THEN <<Head(text)>> \o Substring(Tail(text), n - Len(Head(text)))
         ELSE Words(SubSeq(Head(text), 1, n))

RECURSIVE Split(_, _)
\* text.split('\n'); `line` is the line read so far
Split(text, line) ==
    IF text = << >> THEN <<line>>
    ELSE IF Head(text) = "\n" THEN <<line>> \o Split(Tail(text), << >>)
         ELSE Split(Tail(text), Append(line, Head(text)))

RECURSIVE NonBlank(_)
\* lines.filter((l) => l.trim())
NonBlank(lines) ==
    IF lines = << >> THEN << >>
    ELSE (IF Trim(Head(lines)) # << >> THEN <<Head(lines)>> ELSE << >>)
         \o NonBlank(Tail(lines))

\* lines.slice(0, n)
Slice(lines, n) == SubSeq(lines, 1, IF Len(lines) < n THEN Len(lines) ELSE n)

---------------------------------------------------------------------------
(* The section extractor *)

\* A token is one of the labels, whatever its case (flag i)
IsOneOf(tok, labels) ==
    \E label \in labels : Len(tok) = Len(label) /\ ToLowerCase(tok) = label

\* The labels of the three patterns, in lower case
SystemLabels == {"system prompt:", "system:"}
PlanLabels == {"plan:", "implementation plan:"}
RationaleLabels == {"rationale:", "reasoning:"}

\* The labels that end a section: \n(?:PLAN|Plan|RATIONALE|Rationale): and
\* \n(?:RATIONALE|Rationale|SYSTEM|System):
EndsSystemPrompt == {"plan:", "rationale:"}
EndsPlan == {"rationale:", "system:"}
EndsNothing == {}

\* The number of white space tokens a text starts with: what \s* takes
LeadingSpace(r) == Len(r) - Len(TrimStart(r))

\* A section ends at k: \n\n or \n<label>: follows
SectionEnds(r, k, stops) ==
    /\ k + 2 <= Len(r)
    /\ r[k + 1] = "\n"
    /\ r[k + 2] = "\n" \/ IsOneOf(r[k + 2], stops)

\* CaptureEnd for a greedy (.+): the capture runs to the end of the text
CaptureEndGreedy(r, from, stops) == Len(r)

\* Where the lazy (.+?) that starts at `from` ends: before the first \n\n or
\* \n<label>: after it, or else at the end of the text ($, no flag m)
CaptureEnd(r, from, stops) ==
    CHOOSE k \in from..Len(r) :
        /\ k = Len(r) \/ SectionEnds(r, k, stops)
        /\ \A j \in from..(k - 1) : ~SectionEnds(r, j, stops)

\* What (.+?) captures of r, the text after the label: \s* takes the white
\* space r starts with; when r is white space only, \s* gives its last
\* character back to (.+?). `toEnd`: the pattern ends with (.+?)$ alone
Capture(r, stops, toEnd) ==
    IF LeadingSpace(r) = Len(r)
    THEN <<r[Len(r)]>>
    ELSE SubSeq(r, LeadingSpace(r) + 1,
                IF toEnd THEN Len(r) ELSE CaptureEnd(r, LeadingSpace(r) + 1, stops))

\* content.match(/(?:^|\n)(?:<label>):\s*\n?(.+?)(?:\n\n|\n(?:<stop>):|$)/is):
\* the match at the first label that starts a line and is not the end of the
\* content, or no match
Match(text, labels, stops, toEnd) ==
    LET at == { i \in 1..(Len(text) - 1) :
                  IsOneOf(text[i], labels) /\ (i = 1 \/ text[i - 1] = "\n") }
    IN IF at = {} THEN [found |-> FALSE, group |-> << >>]
       ELSE LET i == CHOOSE j \in at : \A k \in at : j <= k
            IN [found |-> TRUE,
                group |-> Capture(SubSeq(text, i + 1, Len(text)), stops, toEnd)]

\* firstParagraph.length > 200
FirstParagraphMax == 200

\* lines.slice(0, 3)
FirstLines == 3

Ellipsis == "..."

\* Truncated without the .trim() after substring
TruncatedUntrimmed(firstParagraph) ==
    Append(Substring(firstParagraph, FirstParagraphMax), Ellipsis)

\* firstParagraph.substring(0, 200).trim() + '...'
Truncated(firstParagraph) ==
    Append(Trim(Substring(firstParagraph, FirstParagraphMax)), Ellipsis)

\* FirstFew joining every non-blank line, without slice(0, 3)
FirstFewUnsliced(lines) == Trim(Join(lines, <<" ">>))

\* lines.slice(0, 3).join(' ').trim()
FirstFew(lines) == Trim(Join(Slice(lines, FirstLines), <<" ">>))

\* extractSystemPrompt without the .trim() of the matched section
extractSystemPromptUntrimmed(text) ==
    LET m == Match(text, SystemLabels, EndsSystemPrompt, FALSE)
        lines == NonBlank(Split(text, << >>))
    IN IF m.found THEN m.group
       ELSE IF Len(lines) > 0
            THEN IF Length(lines[1]) > FirstParagraphMax
                 THEN Truncated(lines[1])
                 ELSE FirstFew(lines)
            ELSE Trim(text)

\* extractSystemPrompt
extractSystemPrompt(text) ==
    LET m == Match(text, SystemLabels, EndsSystemPrompt, FALSE)
        lines == NonBlank(Split(text, << >>))
    IN IF m.found THEN Trim(m.group)
       ELSE IF Len(lines) > 0
            THEN IF Length(lines[1]) > FirstParagraphMax
                 THEN Truncated(lines[1])
                 ELSE FirstFew(lines)
            ELSE Trim(text)

\* extractPlan with the fallback of extractSystemPrompt: the first lines
extractPlanFirstLines(text) ==
    LET m == Match(text, PlanLabels, EndsPlan, FALSE)
    IN IF m.found THEN Trim(m.group) ELSE FirstFew(NonBlank(Split(text, << >>)))

\* extractPlan
extractPlan(text) ==
    LET m == Match(text, PlanLabels, EndsPlan, FALSE)
    IN IF m.found THEN Trim(m.group) ELSE << >>

\* extractRationale: (.+?)$ runs to the end of the content
extractRationale(text) ==
    LET m == Match(text, RationaleLabels, EndsNothing, TRUE)
    IN IF m.found THEN Trim(m.group) ELSE << >>

---------------------------------------------------------------------------
(* mergeSystemPrompts and the reference notes *)

Keywords == {"consider", "ensure", "avoid", "note"}

\* IsRefinement comparing the line as it is written, without toLowerCase
IsRefinementCaseSensitive(line) ==
    \E word \in Keywords : Includes(Str(Trim(line)), word)

\* The filter of claudeCore's lines: line.trim().toLowerCase() includes one of
\* the four words
IsRefinement(line) ==
    \E word \in Keywords : Includes(ToLowerCase(Str(Trim(line))), word)

RECURSIVE KeepRefinements(_)
KeepRefinements(lines) ==
    IF lines = << >> THEN << >>
    ELSE (IF IsRefinement(Head(lines)) THEN <<Head(lines)>> ELSE << >>)
         \o KeepRefinements(Tail(lines))

\* claudeRefinements with every line of claudeCore kept
claudeRefinementsUnfiltered(claudeCore) ==
    Join(Split(claudeCore, << >>), <<";", " ">>)

\* claudeCore.split('\n').filter(...).join('; ')
claudeRefinements(claudeCore) ==
    Join(KeepRefinements(Split(claudeCore, << >>)), <<";", " ">>)

DefaultInstruction == <<"Execute the task with precision and clarity.">>

\* MergedParts without the Approach part
MergedPartsNoApproach(t, codexCore, claudeCore) ==
    LET refinements == claudeRefinements(claudeCore)
    IN << <<"Task:", " ">> \o t >>
       \o (IF /\ claudeCore # << >>
              /\ Str(claudeCore) # Str(codexCore)
              /\ refinements # << >>
           THEN << <<"\n", "Considerations:", " ">> \o refinements >>
           ELSE << >>)

\* The parts after `Task: ${task}`: the approach, then the considerations
MergedParts(t, codexCore, claudeCore) ==
    LET refinements == claudeRefinements(claudeCore)
    IN << <<"Task:", " ">> \o t >>
       \o (IF codexCore # << >>
           THEN << <<"\n", "Approach:", " ">> \o codexCore >> ELSE << >>)
       \o (IF /\ claudeCore # << >>
              /\ Str(claudeCore) # Str(codexCore)
              /\ refinements # << >>
           THEN << <<"\n", "Considerations:", " ">> \o refinements >>
           ELSE << >>)

\* mergeSystemPrompts falling back to codexCore alone, without the default
\* instruction
mergeSystemPromptsNoDefault(t, codexPrompt, claudePrompt) ==
    LET codexCore == extractSystemPrompt(codexPrompt)
        parts == MergedParts(t, codexCore, extractSystemPrompt(claudePrompt))
    IN IF Len(parts) <= 1
       THEN t \o <<"\n", "\n">> \o codexCore
       ELSE Join(parts, << >>)

\* mergeSystemPrompts with `parts.length < 1` for `parts.length <= 1`
mergeSystemPromptsNoFallback(t, codexPrompt, claudePrompt) ==
    LET codexCore == extractSystemPrompt(codexPrompt)
        parts == MergedParts(t, codexCore, extractSystemPrompt(claudePrompt))
    IN IF Len(parts) < 1
       THEN t \o <<"\n", "\n">> \o OrElse(codexCore, DefaultInstruction)
       ELSE Join(parts, << >>)

\* mergeSystemPrompts: both prompts go through extractSystemPrompt, here for
\* the second time
mergeSystemPrompts(t, codexPrompt, claudePrompt) ==
    LET codexCore == extractSystemPrompt(codexPrompt)
        parts == MergedParts(t, codexCore, extractSystemPrompt(claudePrompt))
    IN IF Len(parts) <= 1
       THEN t \o <<"\n", "\n">> \o OrElse(codexCore, DefaultInstruction)
       ELSE Join(parts, << >>)

\* Sections taking the plan from the systemPrompt alone, without `|| plan`
SectionsNoPlanField(result) ==
    [systemPrompt |-> extractSystemPrompt(result.systemPrompt),
     plan |-> extractPlan(result.systemPrompt),
     rationale |-> OrElse(extractRationale(result.systemPrompt), result.rationale)]

\* planWithJanus, "Extract structured sections"
Sections(result) ==
    [systemPrompt |-> extractSystemPrompt(result.systemPrompt),
     plan |-> OrElse(extractPlan(result.systemPrompt), result.plan),
     rationale |-> OrElse(extractRationale(result.systemPrompt), result.rationale)]

Placeholder == <<"(see rationale)">>
SystemPromptHeading == <<"## System Prompt">>
PlanHeading == <<"## Plan">>
RationaleHeading == <<"## Rationale">>
CodexTitle == <<"# Codex Proposal">>
ClaudeTitle == <<"# Claude Proposal">>
Separator == <<"---">>

\* The ten elements of the notes array that one proposal gives
Proposal(title, result) ==
    LET sections == Sections(result)
    IN << title, << >>,
          SystemPromptHeading, sections.systemPrompt, << >>,
          PlanHeading, OrElse(sections.plan, Placeholder), << >>,
          RationaleHeading, OrElse(sections.rationale, result.rationale) >>

RECURSIVE NonEmpty(_)
\* .filter((line) => line !== '')
NonEmpty(lines) ==
    IF lines = << >> THEN << >>
    ELSE (IF Head(lines) # << >> THEN <<Head(lines)>> ELSE << >>)
         \o NonEmpty(Tail(lines))

\* planWithJanus, "Build reference notes"
mergedNotes(co, cl) ==
    Join(NonEmpty(Proposal(CodexTitle, co)
                  \o << << >>, Separator, << >> >>
                  \o Proposal(ClaudeTitle, cl)),
         <<"\n">>)

---------------------------------------------------------------------------
(* planWithJanus *)

\* interface JanusOutput, as planWithJanus builds it: the two PlanResults as
\* the adapters returned them, the merged prompt and the reference notes
\* JanusOutput that returns the extracted sections in place of the results
JanusOutputSections(co, cl) ==
    [codex |-> [provider |-> co.provider] @@ Sections(co),
     claude |-> [provider |-> cl.provider] @@ Sections(cl),
     mergedPrompt |-> mergeSystemPrompts(task, Sections(co).systemPrompt,
                                         Sections(cl).systemPrompt),
     mergedNotes |-> mergedNotes(co, cl)]

JanusOutput(co, cl) ==
    [codex |-> co, claude |-> cl,
     mergedPrompt |-> mergeSystemPrompts(task, Sections(co).systemPrompt,
                                         Sections(cl).systemPrompt),
     mergedNotes |-> mergedNotes(co, cl)]

\* No JanusOutput: planWithJanus has not returned
NoOutput == [codex |-> Null, claude |-> Null, mergedPrompt |-> << >>, mergedNotes |-> << >>]

\* planWithJanus, the call: Promise.all([codexPlan(task), claudePlan(task)])
\* issues both adapter calls before it awaits
planWithJanus ==
    /\ janusPc = "idle"
    /\ \E t \in Tasks : task' = t
    /\ janusPc' = "awaiting"
    /\ codexPc' = "pending"
    /\ claudePc' = "calling"
    /\ claudeStage' = "anthropic"
    /\ UNCHANGED <<env, sdk, output, codex, claude, attempted, outcome, invoked, log,
                    response>>
    /\ UNCHANGED Extractor
    /\ UNCHANGED Memory

\* extractSystemPrompt, extractPlan and extractRationale call content.match,
\* which throws a TypeError unless content is a string
Extractable(result) == IsString(result.systemPrompt)

\* planWithJanusSettled going on as soon as codexPlan has returned, without
\* waiting for claudePlan
planWithJanusSettledRace ==
    /\ janusPc = "awaiting"
    /\ \/ /\ codexPc = "threw" \/ claudePc = "threw"
          /\ janusPc' = "failed"
          /\ output' = output
       \/ /\ codexPc = "returned"
          /\ IF Extractable(codex) /\ Extractable(claude)
             THEN /\ janusPc' = "returned"
                  /\ output' = JanusOutput(codex, claude)
             ELSE /\ janusPc' = "failed"
                  /\ output' = output
    /\ UNCHANGED <<env, sdk, task, codexPc, codex>>
    /\ UNCHANGED ClaudeState
    /\ UNCHANGED Extractor
    /\ UNCHANGED Memory

\* planWithJanusSettled merging what codexPlan returned when claudePlan threw
planWithJanusSettledPartial ==
    /\ janusPc = "awaiting"
    /\ \/ /\ codexPc = "threw"
          /\ janusPc' = "failed"
          /\ output' = output
       \/ /\ codexPc = "returned" /\ claudePc \in {"returned", "threw"}
          /\ IF Extractable(codex) /\ Extractable(claude)
             THEN /\ janusPc' = "returned"
                  /\ output' = JanusOutput(codex, claude)
             ELSE /\ janusPc' = "failed"
                  /\ output' = output
    /\ UNCHANGED <<env, sdk, task, codexPc, codex>>
    /\ UNCHANGED ClaudeState
    /\ UNCHANGED Extractor
    /\ UNCHANGED Memory

\* planWithJanus, after the await: Promise.all rejects as soon as one of the
\* two promises rejects, and resolves once both have resolved; the sections
\* are then extracted from both systemPrompts and the output is built
planWithJanusSettled ==
    /\ janusPc = "awaiting"
    /\ \/ /\ codexPc = "threw" \/ claudePc = "threw"
          /\ janusPc' = "failed"
          /\ output' = output
       \/ /\ codexPc = "returned" /\ claudePc = "returned"
          /\ IF Extractable(codex) /\ Extractable(claude)
             THEN /\ janusPc' = "returned"
                  /\ output' = JanusOutput(codex, claude)
             ELSE /\ janusPc' = "failed"
                  /\ output' = output
    /\ UNCHANGED <<env, sdk, task, codexPc, codex>>
    /\ UNCHANGED ClaudeState
    /\ UNCHANGED Extractor
    /\ UNCHANGED Memory

---------------------------------------------------------------------------

Init ==
    /\ env \in [ANTHROPIC_API_KEY : EnvValues, CLAUDE_FLOW_URL : UrlValues,
                CLAUDE_FLOW_CMD : EnvValues, OPENAI_API_KEY : EnvValues]
    /\ sdk \in SdkStates
    /\ task = << >>
    /\ janusPc = "idle"
    /\ output = NoOutput
    /\ codexPc = "idle"
    /\ codex = Null
    /\ claudePc = "idle"
    /\ claudeStage = "anthropic"
    /\ claude = Null
    /\ attempted = << >>
    /\ outcome = [s \in StageSet |-> [how |-> "none", result |-> Null]]
    /\ invoked = << >>
    /\ log = << >>
    /\ content = << >>
    /\ extractPc = "idle"
    /\ extracted = << >>
    /\ extractedAgain = << >>
    /\ response = NoResponse
    /\ disk = NoFile
    /\ modules = [p \in Processes |-> Unloaded]
    /\ calls = << >>

Next ==
    \/ planWithJanus
    \/ codexPlanSettled
    \/ planWithAnthropic
    \/ planWithAnthropicSettled
    \/ planWithHttpService
    \/ planWithHttpServiceSettled
    \/ planWithCliCommand
    \/ planWithCliCommandSettled
    \/ planWithOpenAIFallback
    \/ planWithOpenAIFallbackSettled
    \/ planWithJanusSettled

Spec == Init /\ [][Next]_vars

\* The deployments in which @anthropic-ai/sdk is installed
InitSdkInstalled == Init /\ sdk = "installed"

SpecSdkInstalled == InitSdkInstalled /\ [][Next]_vars

---------------------------------------------------------------------------
(* extractSystemPrompt on its own, for every content of a few lines *)

RECURSIVE Fill(_)
\* A word of n characters
Fill(n) == IF n = 0 THEN "" ELSE "a" \o Fill(n - 1)

\* The lines a content is made of: a label on a line of its own, a line of
\* text, an empty line, a line that starts with a label of the next section,
\* a label followed by text, a line with white space around its text, a
\* line of white space, a line of more than 200 characters, and one whose
\* 200th character is a space
LineKinds ==
    { <<"SYSTEM PROMPT:">>,
      <<"Build", " ", "it">>,
      << >>,
      <<"PLAN:", " ", "Step", " ", "1">>,
      <<"System:", " ", "x">>,
      <<" ", "y", " ">>,
      <<" ">>,
      <<Fill(FirstParagraphMax + 1)>>,
      <<Fill(FirstParagraphMax - 1), " ", "zz">> }

\* The most lines a content has
MaxLines == 4

\* The contents: up to MaxLines lines, joined by newlines
Contents ==
    { Join(lines, <<"\n">>) :
        lines \in UNION { [1..n -> LineKinds] : n \in 0..MaxLines } }

\* extractSystemPrompt(content) is called and returns
extractSystemPromptReturns ==
    /\ extractPc = "called"
    /\ extractPc' = "returned"
    /\ extracted' = extractSystemPrompt(content)
    /\ UNCHANGED <<env, sdk, task, janusPc, output, codexPc, codex, content, extractedAgain>>
    /\ UNCHANGED ClaudeState
    /\ UNCHANGED Memory

\* extractSystemPrompt is called with the section it returned, as
\* mergeSystemPrompts calls it with the sections of planWithJanus
extractSystemPromptAgain ==
    /\ extractPc = "returned"
    /\ extractPc' = "again"
    /\ extractedAgain' = extractSystemPrompt(extracted)
    /\ UNCHANGED <<env, sdk, task, janusPc, output, codexPc, codex, content, extracted>>
    /\ UNCHANGED ClaudeState
    /\ UNCHANGED Memory

InitExtract ==
    /\ env = [ANTHROPIC_API_KEY |-> Undefined, CLAUDE_FLOW_URL |-> Undefined,
              CLAUDE_FLOW_CMD |-> Undefined, OPENAI_API_KEY |-> Undefined]
    /\ sdk = "missing"
    /\ task = << >>
    /\ janusPc = "idle"
    /\ output = NoOutput
    /\ codexPc = "idle"
    /\ codex = Null
    /\ claudePc = "idle"
    /\ claudeStage = "anthropic"
    /\ claude = Null
    /\ attempted = << >>
    /\ outcome = [s \in StageSet |-> [how |-> "none", result |-> Null]]
    /\ invoked = << >>
    /\ log = << >>
    /\ content \in Contents
    /\ extractPc = "called"
    /\ extracted = << >>
    /\ extractedAgain = << >>
    /\ response = NoResponse
    /\ disk = NoFile
    /\ modules = [p \in Processes |-> Unloaded]
    /\ calls = << >>

NextExtract ==
    \/ extractSystemPromptReturns
    \/ extractSystemPromptAgain

SpecExtract == InitExtract /\ [][NextExtract]_vars

---------------------------------------------------------------------------
(* extractPlan on its own, for every content of a few lines *)

\* The lines a content is made of: a label on a line of its own, a label
\* followed by text, a line of text, an empty line, a line that starts with a
\* label that ends the plan, a label that does not, a line of white space
PlanLineKinds ==
    { <<"PLAN:">>,
      <<"Implementation Plan:", " ", "Step", " ", "1">>,
      <<"Do", " ", "it">>,
      << >>,
      <<"RATIONALE:", " ", "why">>,
      <<"System:", " ", "x">>,
      <<"SYSTEM PROMPT:">>,
      <<" ">> }

\* The contents: up to MaxLines lines, joined by newlines
PlanContents ==
    { Join(lines, <<"\n">>) :
        lines \in UNION { [1..n -> PlanLineKinds] : n \in 0..MaxLines } }

\* extractPlan(content) is called and returns
extractPlanReturns ==
    /\ extractPc = "called"
    /\ extractPc' = "returned"
    /\ extracted' = extractPlan(content)
    /\ UNCHANGED <<env, sdk, task, janusPc, output, codexPc, codex, content, extractedAgain>>
    /\ UNCHANGED ClaudeState
    /\ UNCHANGED Memory

InitExtractPlan ==
    /\ env = [ANTHROPIC_API_KEY |-> Undefined, CLAUDE_FLOW_URL |-> Undefined,
              CLAUDE_FLOW_CMD |-> Undefined, OPENAI_API_KEY |-> Undefined]
    /\ sdk = "missing"
    /\ task = << >>
    /\ janusPc = "idle"
    /\ output = NoOutput
    /\ codexPc = "idle"
    /\ codex = Null
    /\ claudePc = "idle"
    /\ claudeStage = "anthropic"
    /\ claude = Null
    /\ attempted = << >>
    /\ outcome = [s \in StageSet |-> [how |-> "none", result |-> Null]]
    /\ invoked = << >>
    /\ log = << >>
    /\ content \in PlanContents
    /\ extractPc = "called"
    /\ extracted = << >>
    /\ extractedAgain = << >>
    /\ response = NoResponse
    /\ disk = NoFile
    /\ modules = [p \in Processes |-> Unloaded]
    /\ calls = << >>

NextExtractPlan == extractPlanReturns

SpecExtractPlan == InitExtractPlan /\ [][NextExtractPlan]_vars

---------------------------------------------------------------------------
(* The memory layer of codex-flow: codex-flow.db and logEvent *)

\* The payloads logEvent is called with (data: unknown): an object, a string,
\* null, undefined, and an object that refers to itself
Payloads ==
    { [type |-> "object", text |-> "task"],
      [type |-> "string", text |-> "done"],
      [type |-> "null", text |-> ""],
      [type |-> "undefined", text |-> ""],
      [type |-> "circular", text |-> ""] }

\* JSON.stringify(data): a string, or undefined for undefined, or a TypeError
\* for a structure that refers to itself
JSONstringify(data) ==
    CASE data.type = "object" ->
           [threw |-> FALSE, defined |-> TRUE, text |-> "{\"" \o data.text \o "\":1}"]
      [] data.type = "string" ->
           [threw |-> FALSE, defined |-> TRUE, text |-> "\"" \o data.text \o "\""]
      [] data.type = "null" -> [threw |-> FALSE, defined |-> TRUE, text |-> "null"]
      [] data.type = "undefined" -> [threw |-> FALSE, defined |-> FALSE, text |-> ""]
      [] OTHER -> [threw |-> TRUE, defined |-> FALSE, text |-> ""]

\* The most calls of logEvent
MaxCalls == 2

\* What stays as it is when the memory layer runs
NotMemory ==
    <<env, sdk, task, janusPc, output, codexPc, codex, claudePc, claudeStage, claude,
      attempted, outcome, invoked, log, response, content, extractPc, extracted,
      extractedAgain>>

\* const firstTime = !fs.existsSync(dbPath)
existsSync ==
    \E p \in Processes :
        /\ modules[p].pc = "unloaded"
        /\ modules' = [modules EXCEPT ![p] = [pc |-> "checked", firstTime |-> ~disk.exists]]
        /\ UNCHANGED <<disk, calls>>
        /\ UNCHANGED NotMemory

\* const db = new Database(dbPath): the file is created unless it exists
Database ==
    \E p \in Processes :
        /\ modules[p].pc = "checked"
        /\ modules' = [modules EXCEPT ![p].pc = "opened"]
        /\ disk' = [disk EXCEPT !.exists = TRUE]
        /\ UNCHANGED calls
        /\ UNCHANGED NotMemory

\* if (firstTime) db.exec(CREATE TABLE IF NOT EXISTS events ...): the end of
\* the module's load
createTable ==
    \E p \in Processes :
        /\ modules[p].pc = "opened"
        /\ modules' = [modules EXCEPT ![p].pc = "loaded"]
        /\ disk' = IF modules[p].firstTime THEN [disk EXCEPT !.table = TRUE] ELSE disk
        /\ UNCHANGED calls
        /\ UNCHANGED NotMemory

\* The row INSERT INTO events (source, type, data) adds: AUTOINCREMENT gives
\* the id after the largest id ever given (created_at, the time, is left out)
Row(source, type, text) ==
    [id |-> disk.sequence + 1, source |-> source, type |-> type, data |-> text]

\* logEvent(source, type, data): db.prepare throws when there is no table
\* events; JSON.stringify throws for a structure that refers to itself;
\* stmt.run throws a TypeError for undefined, which it cannot bind
logEvent ==
    \E p \in Processes, data \in Payloads :
        /\ modules[p].pc = "loaded"
        /\ Len(calls) < MaxCalls
        /\ IF disk.table /\ ~JSONstringify(data).threw /\ JSONstringify(data).defined
           THEN /\ disk' = [disk EXCEPT
                              !.events = Append(@, Row(p, "event", JSONstringify(data).text)),
                              !.sequence = @ + 1]
                /\ calls' = Append(calls, [data |-> data, threw |-> FALSE])
           ELSE /\ disk' = disk
                /\ calls' = Append(calls, [data |-> data, threw |-> TRUE])
        /\ UNCHANGED modules
        /\ UNCHANGED NotMemory

\* The process ends; the module loads again when the next one imports it
exit ==
    \E p \in Processes :
        /\ modules[p].pc = "loaded"
        /\ modules' = [modules EXCEPT ![p] = Unloaded]
        /\ UNCHANGED <<disk, calls>>
        /\ UNCHANGED NotMemory

InitMemory ==
    /\ env = [ANTHROPIC_API_KEY |-> Undefined, CLAUDE_FLOW_URL |-> Undefined,
              CLAUDE_FLOW_CMD |-> Undefined, OPENAI_API_KEY |-> Undefined]
    /\ sdk = "missing"
    /\ task = << >>
    /\ janusPc = "idle"
    /\ output = NoOutput
    /\ codexPc = "idle"
    /\ codex = Null
    /\ claudePc = "idle"
    /\ claudeStage = "anthropic"
    /\ claude = Null
    /\ attempted = << >>
    /\ outcome = [s \in StageSet |-> [how |-> "none", result |-> Null]]
    /\ invoked = << >>
    /\ log = << >>
    /\ content = << >>
    /\ extractPc = "idle"
    /\ extracted = << >>
    /\ extractedAgain = << >>
    /\ response = NoResponse
    /\ disk = NoFile
    /\ modules = [p \in Processes |-> Unloaded]
    /\ calls = << >>

NextMemory ==
    \/ existsSync
    \/ Database
    \/ createTable
    \/ logEvent
    \/ exit

SpecMemory == InitMemory /\ [][NextMemory]_vars

---------------------------------------------------------------------------
(* Properties of the memory layer *)

\* The calls of logEvent so far whose payload has a JSON encoding that a
\* statement can bind
EncodableCalls ==
    SelectSeq(calls, LAMBDA c : ~JSONstringify(c.data).threw /\ JSONstringify(c.data).defined)

\* C21: the event log is append-only with one row per call: the rows of events
\* are, in order, the calls of logEvent made so far (those with a payload that
\* has a JSON encoding), each row's data is the JSON encoding of its call's
\* payload, and the ids increase
C21_OneRowPerCall ==
    /\ Len(disk.events) = Len(EncodableCalls)
    /\ \A i \in 1..Len(disk.events) :
         /\ i <= Len(EncodableCalls) =>
              disk.events[i].data = JSONstringify(EncodableCalls[i].data).text
         /\ \A j \in 1..(i - 1) : disk.events[j].id < disk.events[i].id

---------------------------------------------------------------------------
(* Properties of claudePlan *)

Range(seq) == {seq[i] : i \in DOMAIN seq}

\* The configuration value that makes stage s available
Config(s) ==
    CASE s = "anthropic" -> env.ANTHROPIC_API_KEY
      [] s = "http" -> env.CLAUDE_FLOW_URL
      [] s = "cli" -> env.CLAUDE_FLOW_CMD
      [] OTHER -> env.OPENAI_API_KEY

\* How a stage ends when it gives claudePlan no result
NoResult == {"skipped", "failed", "empty"}

\* C1: the stages are attempted in the order direct-API, HTTP, CLI, fallback,
\* each at most once and only after every earlier stage was skipped or ended
\* without a result; nothing is attempted after a result, and the PlanResult
\* claudePlan returns is the one that exactly one stage, the last attempted,
\* resolved with.
C1_FixedOrder ==
    /\ Len(attempted) <= Len(Stages)
    /\ \A i \in DOMAIN attempted : attempted[i] = Stages[i]
    /\ \A s \in StageSet : outcome[s].how # "none" <=> s \in Range(attempted)
    /\ \A i \in DOMAIN attempted :
         \A j \in 1..(i - 1) : outcome[Stages[j]].how \in NoResult
    /\ claudePc = "returned" =>
         /\ attempted # << >>
         /\ claudeStage = attempted[Len(attempted)]
         /\ outcome[claudeStage].how = "result"
         /\ claude = outcome[claudeStage].result
         /\ \A s \in StageSet \ {claudeStage} :
              outcome[s].how # "result" /\ outcome[s].result = Null

\* The CLI stage returned the result after the direct-API and the HTTP stage
\* were attempted and gave none
C1_Witness ==
    /\ claudePc = "returned"
    /\ claudeStage = "cli"
    /\ attempted = <<"anthropic", "http", "cli">>
    /\ outcome["anthropic"].how = "failed"
    /\ outcome["http"].how = "failed"

\* C2: a direct-API, HTTP or CLI stage that completes without error and
\* yields empty content is not the stage whose result claudePlan returns.
C2_EmptyContentFallsThrough ==
    \A s \in TransportStages :
        (claudePc = "returned" /\ claudeStage = s) => claude.systemPrompt # << >>

\* C3: every PlanResult claudePlan returns has a non-empty systemPrompt,
\* whichever of the four stages produced it.
C3_SystemPromptNonEmpty ==
    claudePc = "returned" => outcome[claudeStage].result.systemPrompt # << >>

Configured(s) == ~Falsy(Config(s))

\* C4 as stated: with ANTHROPIC_API_KEY and CLAUDE_FLOW_URL both configured,
\* the result claudePlan returns is the direct-API transport's, never the
\* HTTP transport's.
C4_Original ==
    (Configured("anthropic") /\ Configured("http") /\ claudePc = "returned")
        => claudeStage = "anthropic"

\* C4 amended: with both configured, once the direct-API transport has
\* answered without error claudePlan returns that answer's PlanResult and the
\* HTTP transport is never invoked; the HTTP transport's result is returned
\* only after the direct-API stage has failed.
C4_ApiResultWins ==
    (Configured("anthropic") /\ Configured("http")) =>
        /\ outcome["anthropic"].how = "result" =>
              /\ claudePc = "returned"
              /\ claudeStage = "anthropic"
              /\ claude = outcome["anthropic"].result
              /\ "http" \notin Range(invoked)
        /\ (claudePc = "returned" /\ claudeStage = "http") =>
              outcome["anthropic"].how = "failed"

\* Both are configured and the direct-API transport's result was returned
C4_Witness ==
    /\ Configured("anthropic")
    /\ UrlParses(env.CLAUDE_FLOW_URL)
    /\ claudePc = "returned"
    /\ claudeStage = "anthropic"
    /\ claude.systemPrompt # << >>

\* C5: no failure of the direct-API, HTTP or CLI stage makes claudePlan
\* raise: after such a failure claudePlan is at a later stage, and when it
\* raises, the exception is the one the fallback stage's own request threw.
C5_OnlyFallbackRaises ==
    /\ \A s \in TransportStages :
         outcome[s].how = "failed" => StageIndex(claudeStage) > StageIndex(s)
    /\ claudePc = "threw" =>
         /\ claudeStage = "fallback"
         /\ outcome["fallback"].how = "failed"
         /\ "fallback" \in Range(invoked)

\* The direct-API, HTTP and CLI transports all failed, and the fallback's
\* request threw
C5_Witness ==
    /\ \A s \in TransportStages : outcome[s].how = "failed" /\ s \in Range(invoked)
    /\ claudePc = "threw"

\* C6: a stage whose configuration value is absent does no I/O: its transport
\* is never invoked, and once its helper has been called claudePlan has moved
\* on to the next stage.
C6_AbsentConfigNoIO ==
    \A s \in TransportStages :
        Falsy(Config(s)) =>
            /\ s \notin Range(invoked)
            /\ outcome[s].how \in {"none", "skipped"}
            /\ s \in Range(attempted) => StageIndex(claudeStage) > StageIndex(s)

\* None of the three is configured: each stage was skipped, nothing was
\* invoked before the fallback
C6_Witness ==
    /\ \A s \in TransportStages : outcome[s].how = "skipped"
    /\ claudePc = "awaiting"
    /\ invoked = <<"fallback">>

\* C7: every failure of the direct-API, HTTP or CLI stage is logged to
\* diagnostic output before resolution goes on.  It fails with the SDK
\* installed too (SpecSdkInstalled), where no module is unavailable.
C7_FailuresLogged ==
    \A s \in TransportStages : outcome[s].how = "failed" => s \in Range(log)

NothingConfigured == \A s \in StageSet : Falsy(Config(s))

\* C8: with none of the four configuration values set, claudePlan does no
\* I/O, logs and raises nothing, and returns the stub, the same PlanResult
\* for every task.
C8_StubWhenNothingConfigured ==
    NothingConfigured =>
        /\ invoked = << >>
        /\ log = << >>
        /\ claudePc # "threw"
        /\ claudePc = "returned" => (claudeStage = "fallback" /\ claude = Stub)

\* The stub was returned for a task that is not empty
C8_Witness ==
    /\ NothingConfigured
    /\ claudePc = "returned"
    /\ claude = Stub
    /\ task # << >>

---------------------------------------------------------------------------
(* Properties of planWithJanus *)

Settled(pc) == pc \in {"returned", "threw"}

\* C9: both adapter calls are issued before either completes; the output is
\* built only after both have returned, from their two results; in a run
\* where an adapter call failed no JanusOutput is produced, and planWithJanus
\* fails.
C9_AllOrNothing ==
    /\ Settled(codexPc) => claudePc # "idle"
    /\ Settled(claudePc) => codexPc # "idle"
    /\ janusPc = "returned" =>
         /\ codexPc = "returned" /\ claudePc = "returned"
         /\ output = JanusOutput(codex, claude)
    /\ (codexPc = "threw" \/ claudePc = "threw") =>
         /\ output = NoOutput
         /\ janusPc \in {"awaiting", "failed"}
    /\ janusPc # "returned" => output = NoOutput

\* codexPlan returned, claudePlan threw: planWithJanus failed and built nothing
C9_Witness ==
    /\ codexPc = "returned"
    /\ claudePc = "threw"
    /\ janusPc = "failed"
    /\ output = NoOutput

\* C10 as stated: planWithJanus fails only when codexPlan throws.
C10_Original == janusPc = "failed" => codexPc = "threw"

\* C10 amended: planWithJanus fails only when codexPlan throws, when the
\* request of claudePlan's fallback stage throws, or when a systemPrompt that
\* is not a string (taken from the HTTP service's JSON) makes the section
\* extraction throw; a failure of the direct-API, HTTP or CLI stage never
\* makes it fail.
C10_FailsOnlyWhen ==
    janusPc = "failed" =>
        \/ codexPc = "threw"
        \/ /\ claudePc = "threw"
           /\ claudeStage = "fallback"
           /\ outcome["fallback"].how = "failed"
        \/ /\ codexPc = "returned" /\ claudePc = "returned"
           /\ claudeStage = "http"
           /\ ~IsString(claude.systemPrompt)

\* planWithJanus returned a JanusOutput although the direct-API, HTTP and CLI
\* stage of claudePlan all failed
C10_Witness ==
    /\ janusPc = "returned"
    /\ codexPc = "returned"
    /\ \A s \in TransportStages : outcome[s].how = "failed"

\* A transport of claudePlan has been invoked and has not answered
Hung(s) == claudePc = "awaiting" /\ claudeStage = s /\ outcome[s].how = "pending"

\* C11 as stated: while a transport attempted inside claudePlan does not
\* respond, planWithJanus neither returns nor fails, whatever codexPlan does.
C11_Original ==
    \A s \in StageSet : Hung(s) => janusPc = "awaiting"

\* C11 amended: while a transport attempted inside claudePlan does not
\* respond, claudePlan stays at that stage and planWithJanus does not return;
\* it fails only when codexPlan throws, and otherwise neither returns nor
\* fails.
C11_HungTransport ==
    /\ \A s \in StageSet :
         Hung(s) =>
            /\ janusPc # "returned"
            /\ output = NoOutput
            /\ janusPc = "failed" => codexPc = "threw"
    /\ claudePc = "awaiting" => outcome[claudeStage].how = "pending"

\* The HTTP service has not answered, codexPlan has returned, and
\* planWithJanus is still waiting
C11_Witness ==
    /\ Hung("http")
    /\ codexPc = "returned"
    /\ janusPc = "awaiting"

---------------------------------------------------------------------------
(* Properties of the merged prompt and of the reference notes *)

Returned == janusPc = "returned"

\* The texts of the example: the task, and the two systemPrompts
AddLogging == <<"Add", " ", "logging">>
BuildItCarefully ==
    <<"SYSTEM PROMPT:", "\n", "Build", " ", "it", " ", "carefully", "\n", "\n",
      "PLAN:", "\n", "Step", " ", "1">>
ConsiderEdgeCases ==
    <<"Consider", " ", "edge", " ", "cases.", "\n", "Note", " ", "potential", " ", "race.">>

\* C12: mergedPrompt is non-empty (and not blank either) in every JanusOutput,
\* for every task, the empty one included, and every pair of planner outputs,
\* the empty ones included.
C12_MergedPromptNonEmpty ==
    Returned => output.mergedPrompt # << >> /\ Trim(output.mergedPrompt) # << >>

\* An output for the empty task from two empty systemPrompts
C12_Witness ==
    /\ Returned
    /\ task = << >> /\ codex.systemPrompt = << >> /\ claude.systemPrompt = << >>
    /\ output.mergedPrompt # << >>

SectionHeadings == {SystemPromptHeading, PlanHeading, RationaleHeading}
Titles == {CodexTitle, ClaudeTitle}

\* C13: mergedNotes never contains an empty labeled block: every
\* '## System Prompt', '## Plan' and '## Rationale' heading is followed by its
\* non-empty content, and a section whose content is empty loses its heading
\* too (no orphan headings).
C13_NoOrphanHeading ==
    Returned =>
        LET lines == Split(output.mergedNotes, << >>)
        IN \A i \in 1..Len(lines) :
              lines[i] \in SectionHeadings =>
                  /\ i < Len(lines)
                  /\ lines[i + 1] \notin SectionHeadings \cup Titles \cup {Separator}

\* C14 as stated: for the task "Add logging" and the two systemPrompts of the
\* example, mergedPrompt lists the two secondary lines as separate
\* considerations joined by "; " (and in lower case).
C14_Original ==
    (Returned /\ task = AddLogging
       /\ codex.systemPrompt = BuildItCarefully /\ claude.systemPrompt = ConsiderEdgeCases)
    => Str(output.mergedPrompt) =
         "Task: Add logging\nApproach: Build it carefully\nConsiderations: consider edge cases.; note potential race."

\* C14 amended: for the task "Add logging" and the two systemPrompts of the
\* example, mergedPrompt is "Task: Add logging\nApproach: Build it
\* carefully\nConsiderations: Consider edge cases. Note potential race.": the
\* two secondary lines were joined by a space when the section was extracted,
\* so they make one consideration, and they keep their case.
C14_Example ==
    (Returned /\ task = AddLogging
       /\ codex.systemPrompt = BuildItCarefully /\ claude.systemPrompt = ConsiderEdgeCases)
    => Str(output.mergedPrompt) =
         "Task: Add logging\nApproach: Build it carefully\nConsiderations: Consider edge cases. Note potential race."

C14_Witness ==
    /\ Returned /\ task = AddLogging
    /\ codex.systemPrompt = BuildItCarefully /\ claude.systemPrompt = ConsiderEdgeCases
    /\ Len(Split(output.mergedPrompt, << >>)) = 3

\* The line of mergedPrompt that starts with "Considerations: ", if any, and
\* what follows it
ConsiderationsAt(prompt) ==
    { i \in 1..(Len(prompt) - 1) :
        /\ prompt[i] = "Considerations:" /\ prompt[i + 1] = " "
        /\ i > 1 /\ prompt[i - 1] = "\n" }
HasConsiderations(prompt) == ConsiderationsAt(prompt) # {}
Considerations(prompt) ==
    LET i == CHOOSE j \in ConsiderationsAt(prompt) : \A k \in ConsiderationsAt(prompt) : k <= j
    IN SubSeq(prompt, i + 2, Len(prompt))

\* section has its Considerations line in prompt, when other is the primary's
ListsRefinements(prompt, section, other) ==
    LET kept == KeepRefinements(Split(section, << >>))
    IN /\ HasConsiderations(prompt) <=>
            (section # << >> /\ Str(section) # Str(other) /\ kept # << >>)
       /\ HasConsiderations(prompt) =>
            Str(Considerations(prompt)) = Str(Join(kept, <<";", " ">>))

\* C15 as stated: mergedPrompt has a 'Considerations:' line exactly when the
\* secondary's extracted system-prompt section is non-empty, is not
\* string-equal to the primary's, and has a line with one of the four words;
\* the line lists exactly those lines, in order, joined by '; '.
C15_Original ==
    Returned =>
        ListsRefinements(output.mergedPrompt,
                         extractSystemPrompt(claude.systemPrompt),
                         extractSystemPrompt(codex.systemPrompt))

\* C15 amended: the same, of the sections as mergeSystemPrompts extracts them
\* again from the extracted sections: extractSystemPrompt applied twice to
\* each systemPrompt.
C15_Considerations ==
    Returned =>
        ListsRefinements(output.mergedPrompt,
                         extractSystemPrompt(extractSystemPrompt(claude.systemPrompt)),
                         extractSystemPrompt(extractSystemPrompt(codex.systemPrompt)))

\* Two of three lines are listed, in their order and case
C15_Witness ==
    /\ Returned
    /\ HasConsiderations(output.mergedPrompt)
    /\ Str(Considerations(output.mergedPrompt)) = "Avoid globals.; ENSURE tests."

\* The first line of lines, from index `from` on, that is `line`
FirstAt(lines, from, line) ==
    CHOOSE i \in from..Len(lines) :
        lines[i] = line /\ \A j \in from..(i - 1) : lines[j] # line

\* The Plan block of the proposal under `title`: the lines between its
\* '## Plan' and its '## Rationale'
PlanBlock(notes, title) ==
    LET lines == Split(notes, << >>)
        plan == FirstAt(lines, FirstAt(lines, 1, title), PlanHeading)
    IN Join(SubSeq(lines, plan + 1, FirstAt(lines, plan, RationaleHeading) - 1), <<"\n">>)

\* The plan and the rationale of a proposal, as planWithJanus extracts them
PlanOf(result) == OrElse(extractPlan(result.systemPrompt), result.plan)
RationaleOf(result) == OrElse(extractRationale(result.systemPrompt), result.rationale)

\* C16 as stated: the Plan block of each proposal holds the proposal's
\* extracted plan; when that is empty it falls back to the proposal's
\* rationale text; '(see rationale)' appears exactly when both are empty.
C16_Original ==
    Returned =>
        /\ PlanBlock(output.mergedNotes, CodexTitle) =
             OrElse(PlanOf(codex), OrElse(RationaleOf(codex), Placeholder))
        /\ PlanBlock(output.mergedNotes, ClaudeTitle) =
             OrElse(PlanOf(claude), OrElse(RationaleOf(claude), Placeholder))

\* C16 amended: the Plan block of each proposal holds the plan extracted from
\* the proposal's systemPrompt or, when that is empty, the proposal's plan
\* field; it never holds the rationale: '(see rationale)' appears exactly
\* when the extracted plan and the plan field are both empty.
C16_PlanBlock ==
    Returned =>
        /\ PlanBlock(output.mergedNotes, CodexTitle) =
             (IF Falsy(extractPlan(codex.systemPrompt)) /\ Falsy(codex.plan)
              THEN Placeholder ELSE PlanOf(codex))
        /\ PlanBlock(output.mergedNotes, ClaudeTitle) =
             (IF Falsy(extractPlan(claude.systemPrompt)) /\ Falsy(claude.plan)
              THEN Placeholder ELSE PlanOf(claude))

\* One proposal shows its plan field, the other the placeholder although it
\* has a rationale
C16_Witness ==
    /\ Returned
    /\ PlanBlock(output.mergedNotes, CodexTitle) = Placeholder
    /\ codex.rationale # << >>
    /\ extractPlan(claude.systemPrompt) = << >>
    /\ PlanBlock(output.mergedNotes, ClaudeTitle) = claude.plan
    /\ claude.plan # claude.systemPrompt

\* C17: for every task, when both planners' outputs are empty, mergedPrompt
\* is exactly the task, two newlines and 'Execute the task with precision and
\* clarity.', with no 'Task:' prefix and no 'Approach:' or 'Considerations:'
\* line.
C17_EmptyOutputs ==
    (Returned /\ codex.systemPrompt = << >> /\ claude.systemPrompt = << >>)
    => Str(output.mergedPrompt) =
         Str(task) \o "\n\nExecute the task with precision and clarity."

C17_Witness ==
    /\ Returned
    /\ task = AddLogging /\ codex.systemPrompt = << >> /\ claude.systemPrompt = << >>
    /\ Str(output.mergedPrompt) = "Add logging\n\nExecute the task with precision and clarity."

---------------------------------------------------------------------------
(* Properties of extractSystemPrompt *)

Extracted == extractPc = "returned"

\* str.trim(), character by character
TrimString(str) ==
    LET inked == { i \in 1..Len(str) : SubSeq(str, i, i) \notin Whitespace }
    IN IF inked = {} THEN ""
       ELSE SubSeq(str, CHOOSE i \in inked : \A j \in inked : i <= j,
                        CHOOSE i \in inked : \A j \in inked : j <= i)

\* The lines of the content
Lines == Split(content, << >>)

\* The last line of the text that follows line i: the lines up to the next
\* empty line
TextEnd(i) ==
    CHOOSE j \in i..Len(Lines) :
        /\ \A k \in (i + 1)..j : Lines[k] # << >>
        /\ j = Len(Lines) \/ Lines[j + 1] = << >>

\* Line i is 'SYSTEM PROMPT:', followed by text (its first line is not
\* blank) and then a blank line
Labelled(i) ==
    /\ Lines[i] = <<"SYSTEM PROMPT:">>
    /\ TextEnd(i) > i
    /\ TextEnd(i) < Len(Lines)
    /\ Trim(Lines[i + 1]) # << >>

\* The text that follows line i, up to its line j
TextAfter(i, j) == Join(SubSeq(Lines, i + 1, j), <<"\n">>)

StartsWith(line, labels) == line # << >> /\ IsOneOf(line[1], labels)

\* The last line of the text after line i that extractSystemPrompt takes: the
\* line before the first line, past the text's first, that starts with PLAN:
\* or RATIONALE:
CutEnd(i) ==
    CHOOSE j \in (i + 1)..TextEnd(i) :
        /\ \A k \in (i + 2)..j : ~StartsWith(Lines[k], EndsSystemPrompt)
        /\ j = TextEnd(i) \/ StartsWith(Lines[j + 1], EndsSystemPrompt)

NoLabel == ~Match(content, SystemLabels, EndsSystemPrompt, FALSE).found

\* The first non-blank line of the content, as a string
FirstLine == Str(NonBlank(Lines)[1])

\* C19 as stated: for every input with no recognizable label whose first
\* non-blank line is longer than 200 characters, extractSystemPrompt returns
\* exactly the first 200 characters of that line followed by the ellipsis, so
\* the result always has length 203.
C19_Original ==
    (Extracted /\ NoLabel /\ NonBlank(Lines) # << >> /\ Len(FirstLine) > FirstParagraphMax)
    => /\ Str(extracted) = SubSeq(FirstLine, 1, FirstParagraphMax) \o Ellipsis
       /\ Len(Str(extracted)) = FirstParagraphMax + Len(Ellipsis)

\* C19 amended: for every such input extractSystemPrompt returns the first 200
\* characters of that line, trimmed, followed by the ellipsis: the result has
\* length 203 at most, and less when the 200 characters start or end with
\* white space.
C19_Truncated ==
    (Extracted /\ NoLabel /\ NonBlank(Lines) # << >> /\ Len(FirstLine) > FirstParagraphMax)
    => /\ Str(extracted) = TrimString(SubSeq(FirstLine, 1, FirstParagraphMax)) \o Ellipsis
       /\ Len(Str(extracted)) <= FirstParagraphMax + Len(Ellipsis)

\* The 200th character of the first line is a space
C19_Witness ==
    /\ Extracted /\ NoLabel
    /\ NonBlank(Lines) # << >>
    /\ Len(FirstLine) > FirstParagraphMax
    /\ SubSeq(FirstLine, FirstParagraphMax, FirstParagraphMax) = " "
    /\ Len(Str(extracted)) = FirstParagraphMax - 1 + Len(Ellipsis)

\* C20 as stated: for every input with no recognizable label whose first
\* non-blank line has at most 200 characters, extractSystemPrompt returns the
\* first up to 3 non-blank lines joined by single spaces; with no non-blank
\* line at all it returns the trimmed input.
C20_Original ==
    (Extracted /\ NoLabel)
    => IF NonBlank(Lines) = << >>
       THEN Str(extracted) = TrimString(Str(content))
       ELSE Len(FirstLine) <= FirstParagraphMax
            => Str(extracted) = Str(Join(Slice(NonBlank(Lines), FirstLines), <<" ">>))

\* C20 amended: for every such input extractSystemPrompt returns the first up
\* to 3 non-blank lines joined by single spaces and then trimmed (the white
\* space inside is kept); with no non-blank line at all it returns the
\* trimmed input, which is empty.
C20_FirstLines ==
    (Extracted /\ NoLabel)
    => IF NonBlank(Lines) = << >>
       THEN Str(extracted) = TrimString(Str(content)) /\ extracted = << >>
       ELSE Len(FirstLine) <= FirstParagraphMax
            => Str(extracted) =
                 TrimString(Str(Join(Slice(NonBlank(Lines), FirstLines), <<" ">>)))

\* Four non-blank lines, the first with white space around its text
C20_Witness ==
    /\ Extracted /\ NoLabel
    /\ Len(NonBlank(Lines)) > FirstLines
    /\ NonBlank(Lines)[1] = <<" ", "y", " ">>
    /\ Str(extracted) = "y  Build it Build it"

---------------------------------------------------------------------------
(* Properties of extractPlan *)

\* The lines of the result
ExtractedLines == Split(extracted, << >>)

\* No line of the content starts with PLAN: or IMPLEMENTATION PLAN:
NoPlanLabel == \A i \in 1..Len(Lines) : ~StartsWith(Lines[i], PlanLabels)

\* C22 as stated: extractPlan returns the empty string for every input
\* without a PLAN or IMPLEMENTATION PLAN label line; when a label matches,
\* the returned plan contains neither a blank line nor a RATIONALE or SYSTEM
\* label line.  (Read in the claim's favour: a blank line is an empty one,
\* and SYSTEM PROMPT: is no SYSTEM label.)
C22_Original ==
    Extracted =>
        /\ NoPlanLabel => extracted = << >>
        /\ extracted # << >> =>
             \A k \in 1..Len(ExtractedLines) :
                 ExtractedLines[k] # << >> /\ ~StartsWith(ExtractedLines[k], EndsPlan)

\* The plan of the label on line i: from the first line with text after the
\* label to the line before the first later line that is empty or starts
\* with RATIONALE: or SYSTEM:, trimmed
PlanFrom(i) ==
    LET TextOf(k) == IF k = i THEN Tail(Lines[i]) ELSE Lines[k]
        PlanText == { k \in i..Len(Lines) : Trim(TextOf(k)) # << >> }
        PlanStart == CHOOSE k \in PlanText : \A j \in PlanText : k <= j
        PlanEnd ==
            CHOOSE j \in PlanStart..Len(Lines) :
                /\ \A k \in (PlanStart + 1)..j :
                       Lines[k] # << >> /\ ~StartsWith(Lines[k], EndsPlan)
                /\ \/ j = Len(Lines)
                   \/ Lines[j + 1] = << >>
                   \/ StartsWith(Lines[j + 1], EndsPlan)
    IN IF PlanText = {} THEN ""
       ELSE TrimString(Str(Join(<<TextOf(PlanStart)>>
                                \o SubSeq(Lines, PlanStart + 1, PlanEnd),
                                <<"\n">>)))

\* C22 amended: extractPlan returns the empty string for every input without
\* a PLAN or IMPLEMENTATION PLAN label line and never applies the first-lines
\* heuristic; when a label matches, the returned plan starts at the first
\* text after the label and ends before the first later line that is empty
\* or starts with RATIONALE: or SYSTEM:, so it contains no empty line and,
\* after its first line, no line that starts with such a label.
C22_Plan ==
    Extracted =>
        /\ NoPlanLabel => extracted = << >>
        /\ \A i \in 1..Len(Lines) :
             ( /\ StartsWith(Lines[i], PlanLabels)
               /\ (i < Len(Lines) \/ Len(Lines[i]) > 1)
               /\ \A k \in 1..(i - 1) : ~StartsWith(Lines[k], PlanLabels) )
             => Str(extracted) = PlanFrom(i)
        /\ extracted # << >> =>
             \A k \in 1..Len(ExtractedLines) :
                 /\ ExtractedLines[k] # << >>
                 /\ k > 1 => ~StartsWith(ExtractedLines[k], EndsPlan)

\* A plan that starts with a line that starts with System: and ends before
\* the next line that starts with a label
C22_Witness ==
    /\ Extracted
    /\ Lines = << <<"PLAN:">>, <<"System:", " ", "x">>, <<"Do", " ", "it">>,
                  <<"RATIONALE:", " ", "why">> >>
    /\ Str(extracted) = "System: x\nDo it"

---------------------------------------------------------------------------
(* Properties of the results planWithJanus returns *)

\* C23: planWithJanus returns the two PlanResults exactly as the adapters
\* returned them: the provider, systemPrompt, plan and rationale of the codex
\* result are those codexPlan resolved with, and those of the claude result
\* are those of the stage claudePlan returned from
C23_ResultsUnchanged ==
    Returned =>
        /\ output.codex \in CodexResults
        /\ output.codex = codex
        /\ output.claude = claude
        /\ output.claude = outcome[attempted[Len(attempted)]].result
        /\ \A f \in {"provider", "systemPrompt", "plan", "rationale"} :
             output.codex[f] = codex[f] /\ output.claude[f] = claude[f]

\* Both results carry labelled sections, which extraction takes apart: the
\* results are returned whole
C23_Witness ==
    /\ Returned
    /\ Sections(codex).systemPrompt # codex.systemPrompt
    /\ Sections(claude).systemPrompt # claude.systemPrompt
    /\ Sections(codex).plan # codex.plan
    /\ output.codex.systemPrompt = codex.systemPrompt
    /\ output.claude.systemPrompt = claude.systemPrompt

---------------------------------------------------------------------------
(* Properties of the HTTP stage *)

\* claudePlan went on to a later stage than the HTTP stage
PastHttp == "cli" \in Range(attempted) \/ "fallback" \in Range(attempted)

\* C24: once the HTTP stage has received a complete response, whatever its
\* status code and its body, claudePlan returns a PlanResult built from that
\* response and never attempts the CLI or fallback stage; only a request error
\* makes the HTTP stage fall through
C24_ResponseIsResult ==
    /\ response.received =>
         /\ outcome["http"].how = "result"
         /\ claudePc = "returned"
         /\ claude = outcome["http"].result
         /\ \E body \in Bodies : body.data = response.data /\ claude = HttpResult(body)
         /\ ~PastHttp
    /\ ("http" \in Range(invoked) /\ PastHttp) =>
         outcome["http"].how = "failed" /\ ~response.received

\* An empty response with status 500 is what claudePlan returns
C24_Witness ==
    /\ response.received
    /\ response.status = 500
    /\ response.data = << >>
    /\ claudePc = "returned"
    /\ claude = PlanResult("claude", << >>, << >>, HttpRationale)
    /\ Config("cli") # Undefined

---------------------------------------------------------------------------
(* Properties of extractSystemPrompt applied to its own result *)

ExtractedAgain == extractPc = "again"

\* C25 as stated: extractSystemPrompt is idempotent: applying it to its own
\* output returns that output unchanged for every input.
C25_Original == ExtractedAgain => Str(extractedAgain) = Str(extracted)

\* The result is one line
OneLine(text) == "\n" \notin Range(text)

\* C25 amended: applying extractSystemPrompt to its own output returns that
\* output unchanged when the output is a single line of at most 200
\* characters that does not start with a label followed by text, and never
\* when the output has more than one line: its lines are then joined by
\* spaces, or it is cut.
C25_SingleLine ==
    ExtractedAgain =>
        /\ ( /\ OneLine(extracted)
             /\ Len(Str(extracted)) <= FirstParagraphMax
             /\ ~(StartsWith(extracted, SystemLabels) /\ Len(extracted) > 1) )
           => Str(extractedAgain) = Str(extracted)
        /\ ~OneLine(extracted) => Str(extractedAgain) # Str(extracted)

\* Three lines without a label are joined into one line, which the second
\* application returns as it is
C25_Witness ==
    /\ ExtractedAgain
    /\ Lines = << <<"Build", " ", "it">>, <<" ", "y", " ">>, <<"Build", " ", "it">>, << >> >>
    /\ Str(extracted) = "Build it  y  Build it"
    /\ Str(extractedAgain) = "Build it  y  Build it"

---------------------------------------------------------------------------
(* Properties of the fallback form of mergeSystemPrompts *)

\* The merged prompt is the fallback form: it does not start with 'Task: '
FallbackForm ==
    ~(Len(output.mergedPrompt) >= 2
      /\ output.mergedPrompt[1] = "Task:" /\ output.mergedPrompt[2] = " ")

\* The primary core: the primary section, extracted again
PrimaryCore == extractSystemPrompt(Sections(codex).systemPrompt)

\* The secondary section is not empty and none of its lines has a keyword
NoKeywordLine ==
    /\ Sections(claude).systemPrompt # << >>
    /\ \A k \in 1..Len(Split(Sections(claude).systemPrompt, << >>)) :
         ~IsRefinement(Split(Sections(claude).systemPrompt, << >>)[k])

\* C26: whenever mergeSystemPrompts returns the fallback form, the primary
\* core is empty and the result is the task, two newlines and the default
\* phrase; and a non-empty secondary section with no keyword line is dropped
\* from mergedPrompt entirely: the prompt is the fallback form or the task
\* line and the Approach line
C26_FallbackForm ==
    Returned =>
        /\ FallbackForm =>
             /\ PrimaryCore = << >>
             /\ Str(output.mergedPrompt) =
                  Str(task) \o "\n\nExecute the task with precision and clarity."
        /\ NoKeywordLine =>
             Str(output.mergedPrompt) =
               IF PrimaryCore = << >>
               THEN Str(task) \o "\n\nExecute the task with precision and clarity."
               ELSE "Task: " \o Str(task) \o "\nApproach: " \o Str(PrimaryCore)

\* The secondary section 'Service unavailable' has no keyword and the primary
\* section is empty: the fallback form, without the secondary text
C26_Witness ==
    /\ Returned
    /\ task = AddLogging
    /\ codex.systemPrompt = << >>
    /\ Str(Sections(claude).systemPrompt) = "Service unavailable"
    /\ FallbackForm
    /\ Str(output.mergedPrompt) = "Add logging\n\nExecute the task with precision and clarity."

====
